---- MODULE Spec2Model ----
(***************************************************************************)
(* function-extra-resources: a Crossplane composition function that asks   *)
(* for extra resources (fn.go, buildRequirements), and, once Crossplane    *)
(* has supplied them, verifies, sorts and truncates them                   *)
(* (verifyAndSortExtras, sortExtrasByFieldPath) and writes them to the     *)
(* response context (RunFunction).                                         *)
(*                                                                         *)
(* Go values are modelled as follows.                                      *)
(*   *string          a string, NilStr for the nil pointer                 *)
(*   *uint64          a natural number, NilInt for the nil pointer         *)
(*   map[string]T     a function whose DOMAIN is the set of keys           *)
(*   []T              a sequence                                           *)
(*   (value, error)   a record with a field err that is "nil", "error"     *)
(*                    (an error was returned) or "panic" (a nil pointer    *)
(*                    was dereferenced or a slice indexed out of range:    *)
(*                    the goroutine panics and nothing is returned)        *)
(***************************************************************************)
EXTENDS Integers, Sequences, FiniteSets, TLC

VARIABLES
    input,           \* req.Input: the Function input as the caller wrote it
    xr,              \* req.Observed.Composite: the observed composite resource
    extras,          \* req.ExtraResources: the raw matches, nil in phase 1
    in,              \* RunFunction: the decoded Function input (v1beta1.Input)
    pc,              \* the statement RunFunction is at
    rsp,             \* RunFunction: the response under construction
    ret,             \* what RunFunction returned: "none", "rsp", "err", "panic"
    requirements,    \* RunFunction: the result of buildRequirements
    verifiedExtras,  \* RunFunction: the result of verifyAndSortExtras
    ran,             \* the steps this invocation has executed
    rsp1,            \* the response of the last invocation without extras
    sortExtras,      \* sortExtrasByFieldPath: the slice extras of the caller
    sortPath,        \* sortExtrasByFieldPath: the argument path
    sortErr,         \* sortExtrasByFieldPath: the error of the last call
    sortCalls,       \* the number of calls of sortExtrasByFieldPath so far
    sortBefore,      \* the slice as it was before the last call
    sortInput,       \* the slice as the resolver supplied it
    existing,        \* composite mode: the pre-existing document of the context
    computed,        \* composite mode: the newly computed data
    merged           \* composite mode: the document the projection returns

\* The variables of a lone call of sortExtrasByFieldPath.
sortVars == <<sortExtras, sortPath, sortErr, sortCalls, sortBefore, sortInput>>

\* The variables of a composite-mode projection.
mergeVars == <<existing, computed, merged>>

vars == <<input, xr, extras, in, pc, rsp, ret, requirements, verifiedExtras, ran, rsp1,
          sortExtras, sortPath, sortErr, sortCalls, sortBefore, sortInput,
          existing, computed, merged>>

----------------------------------------------------------------------------
(* Bounds of the model. *)

\* longest list of declared sources (in.Spec.ExtraResources)
MaxSources == 2
\* longest list of label matchers of one selector
MaxMatchers == 2
\* longest list of candidates supplied under one key of req.ExtraResources
MaxExtras == 2
\* longest list of candidates a lone call of verifyAndSortExtras is given
MaxCandidates == 3
\* longest list over every kind of value a lone call of sortExtrasByFieldPath
\* is given
MaxList == 3
\* the number of times sortExtrasByFieldPath is called on one slice
MaxSortCalls == 2

----------------------------------------------------------------------------
(* Go values. *)

NilStr == "<nil>"
NilInt == 0 - 1

EmptyMap == <<>>

\* m[k] = v of a Go map.
Put(m, k, v) == [x \in (DOMAIN m) \cup {k} |-> IF x = k THEN v ELSE m[x]]

\* All sequences over S of length at most n.
SeqsUpTo(S, n) == UNION {[1..k -> S] : k \in 0..n}

\* s without its i-th element.
RemoveAt(s, i) == [j \in 1..(Len(s) - 1) |-> IF j < i THEN s[j] ELSE s[j + 1]]

----------------------------------------------------------------------------
(* input/v1beta1: the declared sources. *)

ResourceSourceTypeReference == "Reference"
ResourceSourceTypeSelector == "Selector"

ResourceSourceSelectorLabelMatcherTypeFromCompositeFieldPath == "FromCompositeFieldPath"
ResourceSourceSelectorLabelMatcherTypeValue == "Value"

FromFieldPathPolicyOptional == "Optional"
FromFieldPathPolicyRequired == "Required"

\* ResourceSource.GetType
SourceGetType(e) ==
    IF e.type = "" THEN ResourceSourceTypeReference ELSE e.type

\* ResourceSourceSelectorLabelMatcher.GetType
MatcherGetType(e) ==
    IF e.type = "" THEN ResourceSourceSelectorLabelMatcherTypeFromCompositeFieldPath
    ELSE e.type

\* FromFieldPathIsOptional comparing with the wrong policy.
FromFieldPathIsOptional_Required(e) ==
    e.fromFieldPathPolicy # NilStr /\ e.fromFieldPathPolicy = FromFieldPathPolicyRequired

\* ResourceSourceSelectorLabelMatcher.FromFieldPathIsOptional
FromFieldPathIsOptional(e) ==
    e.fromFieldPathPolicy # NilStr /\ e.fromFieldPathPolicy = FromFieldPathPolicyOptional

\* ResourceSourceSelector.GetSortByFieldPath
GetSortByFieldPath_NoDefault(e) ==
    IF e.isNil THEN "metadata.name" ELSE e.sortByFieldPath

GetSortByFieldPath(e) ==
    IF e.isNil \/ e.sortByFieldPath = "" THEN "metadata.name" ELSE e.sortByFieldPath

\* xpv1.Policy.IsResolutionPolicyOptional on in.Spec.Policy; policy is NilStr
\* when the policy or its resolution is unset.
IsResolutionPolicyOptional(policy) ==
    policy # NilStr /\ policy = "Optional"

----------------------------------------------------------------------------
(* fieldpath.Pave(xr.Resource.Object).GetString(path): the composite resource *)
(* is a map from the field paths it holds to their string values.             *)

GetString(doc, path) ==
    IF path \in DOMAIN doc
    THEN [err |-> "nil", value |-> doc[path]]
    ELSE [err |-> "error", value |-> ""]

----------------------------------------------------------------------------
(* request.GetInput: the input document decoded into v1beta1.Input.  The    *)
(* decoder keeps the fields the Go types declare; ResourceSource declares   *)
(* no namespace, so a namespace written in the document is not in the       *)
(* decoded source; InputSpec declares no context, so a spec.context.key      *)
(* written in the document is not in the decoded input.                     *)

DecodeSource(s) ==
    [type       |-> s.type,
     ref        |-> s.ref,
     selector   |-> s.selector,
     kind       |-> s.kind,
     apiVersion |-> s.apiVersion,
     into       |-> s.into]

DecodeInput(doc) ==
    [extraResources |-> [i \in 1..Len(doc.extraResources) |->
                            DecodeSource(doc.extraResources[i])],
     policy         |-> doc.policy]

----------------------------------------------------------------------------
(* buildRequirements (fn.go). *)

\* &fnv1beta1.ResourceSelector{ApiVersion, Kind, Match: MatchName}; the fields
\* the literal does not set keep their zero value.
MatchNameSelector(extraResource) ==
    [apiVersion  |-> extraResource.apiVersion,
     kind        |-> extraResource.kind,
     namespace   |-> NilStr,
     match       |-> "MatchName",
     matchName   |-> extraResource.ref,
     matchLabels |-> EmptyMap]

\* &fnv1beta1.ResourceSelector{ApiVersion, Kind, Match: MatchLabels}
MatchLabelsSelector(extraResource, matchLabels) ==
    [apiVersion  |-> extraResource.apiVersion,
     kind        |-> extraResource.kind,
     namespace   |-> NilStr,
     match       |-> "MatchLabels",
     matchName   |-> "",
     matchLabels |-> matchLabels]

\* One iteration of the loop over selector.MatchLabels: the label set after the
\* matcher, or the error or panic that ends buildRequirements.
MatchLabel(matchLabels, selector, doc) ==
    CASE MatcherGetType(selector) = ResourceSourceSelectorLabelMatcherTypeValue ->
            IF selector.value = NilStr
            THEN [err |-> "panic", labels |-> matchLabels]
            ELSE [err |-> "nil", labels |-> Put(matchLabels, selector.key, selector.value)]
      [] MatcherGetType(selector) = ResourceSourceSelectorLabelMatcherTypeFromCompositeFieldPath ->
            IF selector.valueFromFieldPath = NilStr
            THEN [err |-> "panic", labels |-> matchLabels]
            ELSE LET got == GetString(doc, selector.valueFromFieldPath) IN
                 IF got.err # "nil"
                 THEN IF ~FromFieldPathIsOptional(selector)
                      THEN [err |-> "error", labels |-> matchLabels]
                      ELSE [err |-> "nil", labels |-> matchLabels]
                 ELSE [err |-> "nil", labels |-> Put(matchLabels, selector.key, got.value)]
      [] OTHER -> [err |-> "nil", labels |-> matchLabels]

\* The loop over selector.MatchLabels, from the label set acc.
RECURSIVE MatchLabelsLoop(_, _, _)
MatchLabelsLoop(matchers, doc, acc) ==
    IF matchers = <<>> THEN [err |-> "nil", labels |-> acc]
    ELSE LET step == MatchLabel(acc, Head(matchers), doc) IN
         IF step.err # "nil" THEN step
         ELSE MatchLabelsLoop(Tail(matchers), doc, step.labels)

\* A requirement key taken from the kind of the source.
RequirementKey_Kind(extraResource) == extraResource.kind

\* extraResName := extraResource.Into: the requirement key of a declared source.
RequirementKey(extraResource) == extraResource.into

\* The Selector case without the check of len(matchLabels).
SelectorRequirement_NoSkip(extraResources, extraResource, doc) ==
    IF extraResource.selector.isNil
    THEN [err |-> "panic", reqs |-> extraResources]
    ELSE LET ml == MatchLabelsLoop(extraResource.selector.matchLabels, doc, EmptyMap) IN
         IF ml.err # "nil" THEN [err |-> ml.err, reqs |-> extraResources]
         ELSE [err |-> "nil",
               reqs |-> Put(extraResources, RequirementKey(extraResource),
                            MatchLabelsSelector(extraResource, ml.labels))]

\* The Selector case of the switch: the requirement map after the source.
SelectorRequirement(extraResources, extraResource, doc) ==
    IF extraResource.selector.isNil
    THEN [err |-> "panic", reqs |-> extraResources]
    ELSE LET ml == MatchLabelsLoop(extraResource.selector.matchLabels, doc, EmptyMap) IN
         IF ml.err # "nil" THEN [err |-> ml.err, reqs |-> extraResources]
         ELSE IF Cardinality(DOMAIN ml.labels) = 0
              THEN [err |-> "nil", reqs |-> extraResources]
              ELSE [err |-> "nil",
                    reqs |-> Put(extraResources, RequirementKey(extraResource),
                                 MatchLabelsSelector(extraResource, ml.labels))]

\* One iteration of the loop over in.Spec.ExtraResources.
SourceRequirement(extraResources, extraResource, doc) ==
    CASE extraResource.type \in {ResourceSourceTypeReference, ""} ->
            IF extraResource.ref = NilStr
            THEN [err |-> "panic", reqs |-> extraResources]
            ELSE [err |-> "nil",
                  reqs |-> Put(extraResources, RequirementKey(extraResource),
                               MatchNameSelector(extraResource))]
      [] extraResource.type = ResourceSourceTypeSelector ->
            SelectorRequirement(extraResources, extraResource, doc)
      [] OTHER -> [err |-> "nil", reqs |-> extraResources]

RECURSIVE RequirementsLoop(_, _, _)
RequirementsLoop(sources, doc, acc) ==
    IF sources = <<>> THEN [err |-> "nil", reqs |-> acc]
    ELSE LET step == SourceRequirement(acc, Head(sources), doc) IN
         IF step.err # "nil" THEN [err |-> step.err, reqs |-> EmptyMap]
         ELSE RequirementsLoop(Tail(sources), doc, step.reqs)

\* buildRequirements(in, xr): (requirements, nil), (nil, err) or a panic.
buildRequirements(i, doc) == RequirementsLoop(i.extraResources, doc, EmptyMap)

----------------------------------------------------------------------------
(* sortExtrasByFieldPath (fn.go).  A resource is [id, fields]: fields maps   *)
(* the field paths the object holds to values [kind, s, n]; kind is the Go   *)
(* type of the value ("string", "float64", "int", "bool", ...), "nil" for a  *)
(* null, or "error" where the lookup fails with an error that is not         *)
(* IsNotFound.                                                               *)

NilValue == [kind |-> "nil", s |-> "", n |-> 0]

\* The strings of the model in lexicographic order (Go's < on strings).
StringOrder == <<"", "a", "b", "c">>

StringRank(str) == CHOOSE i \in 1..Len(StringOrder) : StringOrder[i] = str

\* fieldpath.Pave(obj).GetValue(path): a path the object does not hold gives
\* (nil, not-found).
GetValue(resource, path) ==
    IF path \in DOMAIN resource.fields THEN resource.fields[path] ELSE NilValue

\* The kinds the switch on t.Kind() orders.
SortableKinds ==
    {"float64", "float32", "int64", "int32", "int16", "int8", "int", "string"}

\* The first loop forgetting the type seen so far at a nil value.
RECURSIVE CommonType_ResetAtNil(_, _, _, _)
CommonType_ResetAtNil(list, path, i, t) ==
    IF i > Len(list) THEN [err |-> "nil", t |-> t]
    ELSE LET val == GetValue(list[i], path) IN
         IF val.kind = "error" THEN [err |-> "error", t |-> t]
         ELSE IF val.kind = "nil" THEN CommonType_ResetAtNil(list, path, i + 1, "nil")
         ELSE IF t = "nil" THEN CommonType_ResetAtNil(list, path, i + 1, val.kind)
         ELSE IF t # val.kind THEN [err |-> "error", t |-> t]
         ELSE CommonType_ResetAtNil(list, path, i + 1, t)

\* The first loop from candidate i on: the common type t ("nil" while no
\* value was seen), or the error that ends the sort.
RECURSIVE CommonType(_, _, _, _)
CommonType(list, path, i, t) ==
    IF i > Len(list) THEN [err |-> "nil", t |-> t]
    ELSE LET val == GetValue(list[i], path) IN
         IF val.kind = "error" THEN [err |-> "error", t |-> t]
         ELSE IF val.kind = "nil" THEN CommonType(list, path, i + 1, t)
         ELSE IF t = "nil" THEN CommonType(list, path, i + 1, val.kind)
         ELSE IF t # val.kind THEN [err |-> "error", t |-> t]
         ELSE CommonType(list, path, i + 1, t)

\* The less function ordering the values from the largest down.
Less_Descending(vali, valj, t) ==
    IF t = "string"
    THEN StringRank(IF vali.kind = "nil" THEN "" ELSE vali.s)
            > StringRank(IF valj.kind = "nil" THEN "" ELSE valj.s)
    ELSE (IF vali.kind = "nil" THEN 0 ELSE vali.n)
            > (IF valj.kind = "nil" THEN 0 ELSE valj.n)

\* The less function putting a nil value before every other value.
Less_NilFirst(vali, valj, t) ==
    IF vali.kind = "nil" \/ valj.kind = "nil"
    THEN vali.kind = "nil" /\ valj.kind # "nil"
    ELSE IF t = "string"
    THEN StringRank(vali.s) < StringRank(valj.s)
    ELSE vali.n < valj.n

\* The less function comparing with <= instead of <.
Less_OrEqual(vali, valj, t) ==
    IF t = "string"
    THEN StringRank(IF vali.kind = "nil" THEN "" ELSE vali.s)
            <= StringRank(IF valj.kind = "nil" THEN "" ELSE valj.s)
    ELSE (IF vali.kind = "nil" THEN 0 ELSE vali.n)
            <= (IF valj.kind = "nil" THEN 0 ELSE valj.n)

\* The less function of sort.Slice on two values of type t; a nil value is
\* reflect.Zero(t).
Less(vali, valj, t) ==
    IF t = "string"
    THEN StringRank(IF vali.kind = "nil" THEN "" ELSE vali.s)
            < StringRank(IF valj.kind = "nil" THEN "" ELSE valj.s)
    ELSE (IF vali.kind = "nil" THEN 0 ELSE vali.n)
            < (IF valj.kind = "nil" THEN 0 ELSE valj.n)

\* sort.Slice on at most maxInsertion elements is the insertion sort of
\* package sort: element x moves left while it is less than its left
\* neighbour.
RECURSIVE InsertSorted(_, _, _, _)
InsertSorted(sorted, x, path, t) ==
    IF sorted = <<>> THEN <<x>>
    ELSE LET last == sorted[Len(sorted)] IN
         IF Less(GetValue(x, path), GetValue(last, path), t)
         THEN Append(InsertSorted(SubSeq(sorted, 1, Len(sorted) - 1), x, path, t), last)
         ELSE Append(sorted, x)

RECURSIVE InsertionSort(_, _, _, _)
InsertionSort(list, i, path, t) ==
    IF i = 0 THEN <<>>
    ELSE InsertSorted(InsertionSort(list, i - 1, path, t), list[i], path, t)

\* sort.Slice, called at fn.go:237, is pdqsort_func of the Go standard
\* library (package sort, Go 1.19 and later); it is not a stable sort.  The
\* definitions from here to SortSlice follow that package.
\* The longest range sort.Slice sorts by insertion.
maxInsertion == 12

\* The elements of data at the indices a and b (from 0, as in Go) exchanged.
Swap(data, a, b) ==
    [x \in 1..Len(data) |-> IF x = a + 1 THEN data[b + 1]
                            ELSE IF x = b + 1 THEN data[a + 1] ELSE data[x]]

\* less(a, b) of sort.Slice on the elements at the indices a and b.
LessAt(data, a, b, path, t) ==
    Less(GetValue(data[a + 1], path), GetValue(data[b + 1], path), t)

\* order2 of package sort: the indices a and b ordered by their elements.
Order2(data, a, b, swaps, path, t) ==
    IF LessAt(data, b, a, path, t)
    THEN [a |-> b, b |-> a, swaps |-> swaps + 1]
    ELSE [a |-> a, b |-> b, swaps |-> swaps]

\* median of package sort: the index of the median of three elements, and
\* the number of exchanges it took.  o1, o2 and o3 are the results of its
\* three calls of order2.
MedianOf(o3) == [pivot |-> o3.b, swaps |-> o3.swaps]

MedianThird(data, o1, o2, path, t) ==
    MedianOf(Order2(data, o1.a, o2.a, o2.swaps, path, t))

MedianSecond(data, o1, c, path, t) ==
    MedianThird(data, o1, Order2(data, o1.b, c, o1.swaps, path, t), path, t)

Median(data, a, b, c, path, t) ==
    MedianSecond(data, Order2(data, a, b, 0, path, t), c, path, t)

\* The hint of choosePivot: the range is likely sorted when no two of the
\* three elements were out of order.
HintOf(m) == [pivot |-> m.pivot, hint |-> IF m.swaps = 0 THEN "increasing" ELSE "unknown"]

\* choosePivot of package sort on the range [a, b) of 8 to 49 elements: the
\* median of the elements at the quarters.
ChoosePivot(data, a, b, path, t) ==
    HintOf(Median(data, a + ((b - a) \div 4) * 1, a + ((b - a) \div 4) * 2,
                  a + ((b - a) \div 4) * 3, path, t))

\* partialInsertionSort of package sort on a range of fewer than 50
\* elements: TRUE when the range is sorted already; the range is not changed.
PartialInsertionSort(data, a, b, path, t) ==
    \A i \in (a + 1)..(b - 1) : ~LessAt(data, i, i - 1, path, t)

\* partition of package sort, after data.Swap(a, pivot): the scan from the
\* left, the scan from the right, the exchange of the elements they stop at,
\* and the final data.Swap(j, a).
RECURSIVE ScanUp(_, _, _, _, _, _)
ScanUp(data, i, j, a, path, t) ==
    IF i <= j /\ LessAt(data, i, a, path, t) THEN ScanUp(data, i + 1, j, a, path, t) ELSE i

RECURSIVE ScanDown(_, _, _, _, _, _)
ScanDown(data, i, j, a, path, t) ==
    IF i <= j /\ ~LessAt(data, j, a, path, t) THEN ScanDown(data, i, j - 1, a, path, t) ELSE j

RECURSIVE PartitionLoop(_, _, _, _, _, _)
RECURSIVE PartitionDown(_, _, _, _, _, _)
RECURSIVE PartitionExchange(_, _, _, _, _, _)
PartitionLoop(data, i, j, a, path, t) ==
    PartitionDown(data, ScanUp(data, i, j, a, path, t), j, a, path, t)

PartitionDown(data, i, j, a, path, t) ==
    PartitionExchange(data, i, ScanDown(data, i, j, a, path, t), a, path, t)

PartitionExchange(data, i, j, a, path, t) ==
    IF i > j
    THEN [data |-> Swap(data, j, a), mid |-> j]
    ELSE PartitionLoop(Swap(data, i, j), i + 1, j - 1, a, path, t)

Partition(data, a, b, pivot, path, t) ==
    PartitionLoop(Swap(data, a, pivot), a + 1, b - 1, a, path, t)

\* insertionSort of package sort on the range [a, b).
InsertionSortRange(data, a, b, path, t) ==
    InsertionSort(SubSeq(data, a + 1, b), b - a, path, t)

\* pdqsort of package sort on maxInsertion + 1 elements: the range is left as
\* it is when it is sorted already, and otherwise partitioned once around the
\* pivot, which leaves two ranges that are sorted by insertion.
PdqsortPartitioned(pt, path, t) ==
    InsertionSortRange(pt.data, 0, pt.mid, path, t)
        \o <<pt.data[pt.mid + 1]>>
        \o InsertionSortRange(pt.data, pt.mid + 1, Len(pt.data), path, t)

PdqsortAround(data, cp, path, t) ==
    IF cp.hint = "increasing" /\ PartialInsertionSort(data, 0, Len(data), path, t)
    THEN data
    ELSE PdqsortPartitioned(Partition(data, 0, Len(data), cp.pivot, path, t), path, t)

Pdqsort(data, path, t) ==
    PdqsortAround(data, ChoosePivot(data, 0, Len(data), path, t), path, t)

\* sort.Slice(p, less) on at most maxInsertion + 1 elements.
SortSlice(list, path, t) ==
    IF Len(list) <= maxInsertion
    THEN InsertionSort(list, Len(list), path, t)
    ELSE Pdqsort(list, path, t)

\* sortExtrasByFieldPath sorting the slice before it checks the kinds.
sortExtrasByFieldPath_SortsBeforeCheck(list, path) ==
    IF path = "" THEN [err |-> "error", extras |-> list]
    ELSE LET c == CommonType(list, path, 1, "nil") IN
         IF c.err # "nil"
         THEN [err |-> "error",
               extras |-> IF c.t \in SortableKinds THEN SortSlice(list, path, c.t) ELSE list]
         ELSE IF c.t = "nil" THEN [err |-> "nil", extras |-> list]
         ELSE IF c.t \notin SortableKinds
              THEN IF Len(list) >= 2
                   THEN [err |-> "error", extras |-> list]
                   ELSE [err |-> "nil", extras |-> list]
              ELSE [err |-> "nil", extras |-> SortSlice(list, path, c.t)]

\* sortExtrasByFieldPath without the return where no value was seen.
sortExtrasByFieldPath_NoEarlyReturn(list, path) ==
    IF path = "" THEN [err |-> "error", extras |-> list]
    ELSE LET c == CommonType(list, path, 1, "nil") IN
         IF c.err # "nil" THEN [err |-> "error", extras |-> list]
         ELSE IF c.t \notin SortableKinds
              THEN IF Len(list) >= 2
                   THEN [err |-> "error", extras |-> list]
                   ELSE [err |-> "nil", extras |-> list]
              ELSE [err |-> "nil", extras |-> SortSlice(list, path, c.t)]

\* sortExtrasByFieldPath(extras, path): the error returned and the list the
\* caller's slice holds afterwards.
sortExtrasByFieldPath(list, path) ==
    IF path = "" THEN [err |-> "error", extras |-> list]
    ELSE LET c == CommonType(list, path, 1, "nil") IN
         IF c.err # "nil" THEN [err |-> "error", extras |-> list]
         ELSE IF c.t = "nil" THEN [err |-> "nil", extras |-> list]
         ELSE IF c.t \notin SortableKinds
              THEN \* the default case sets err when less is called, and
                   \* less is called when there are two elements to compare
                   IF Len(list) >= 2
                   THEN [err |-> "error", extras |-> list]
                   ELSE [err |-> "nil", extras |-> list]
              ELSE [err |-> "nil", extras |-> SortSlice(list, path, c.t)]

----------------------------------------------------------------------------
(* verifyAndSortExtras (fn.go).  The state of the loop is [err, cleaned,    *)
(* raw]: cleanedExtras, and extraResources, whose lists the sort rewrites   *)
(* in place.                                                                *)

\* append(cleanedExtras[key], list...): no key is made for an empty list.
AppendExtras(cleaned, key, list) ==
    IF list = <<>> THEN cleaned
    ELSE Put(cleaned, key, (IF key \in DOMAIN cleaned THEN cleaned[key] ELSE <<>>) \o list)

\* The Reference case without the check of the resolution policy.
VerifyReference_NoOptional(st, extraResName, resources, policy) ==
    IF Len(resources) > 1
    THEN [st EXCEPT !.err = "error"]
    ELSE IF Len(resources) = 0
    THEN [st EXCEPT !.err = "panic"]
    ELSE [st EXCEPT !.cleaned = AppendExtras(st.cleaned, extraResName, <<resources[1]>>)]

\* The Reference case of the switch.
VerifyReference(st, extraResName, resources, policy) ==
    IF Len(resources) = 0 /\ IsResolutionPolicyOptional(policy)
    THEN st
    ELSE IF Len(resources) > 1
    THEN [st EXCEPT !.err = "error"]
    ELSE IF Len(resources) = 0
    THEN \* resources[0] of an empty slice
         [st EXCEPT !.err = "panic"]
    ELSE [st EXCEPT !.cleaned = AppendExtras(st.cleaned, extraResName, <<resources[1]>>)]

\* The Selector case with minMatch checked against the truncated list.
VerifySelector_MinAfterMax(st, extraResName, resources, selector) ==
    IF selector.isNil
    THEN [st EXCEPT !.err = "panic"]
    ELSE LET sorted == sortExtrasByFieldPath(resources, GetSortByFieldPath(selector))
             kept == IF selector.maxMatch # NilInt /\ Len(sorted.extras) > selector.maxMatch
                     THEN SubSeq(sorted.extras, 1, selector.maxMatch)
                     ELSE sorted.extras
         IN IF sorted.err # "nil" \/ (selector.minMatch # NilInt /\ Len(kept) < selector.minMatch)
            THEN [st EXCEPT !.err = "error"]
            ELSE [st EXCEPT !.raw = Put(st.raw, extraResName, sorted.extras),
                            !.cleaned = AppendExtras(st.cleaned, extraResName, kept)]

\* The Selector case with the list truncated before it is sorted.
VerifySelector_TruncateBeforeSort(st, extraResName, resources, selector) ==
    IF selector.isNil
    THEN [st EXCEPT !.err = "panic"]
    ELSE IF selector.minMatch # NilInt /\ Len(resources) < selector.minMatch
    THEN [st EXCEPT !.err = "error"]
    ELSE LET kept == IF selector.maxMatch # NilInt /\ Len(resources) > selector.maxMatch
                     THEN SubSeq(resources, 1, selector.maxMatch)
                     ELSE resources
             sorted == sortExtrasByFieldPath(kept, GetSortByFieldPath(selector))
         IN IF sorted.err # "nil"
            THEN [st EXCEPT !.err = "error"]
            ELSE [st EXCEPT !.raw = Put(st.raw, extraResName, sorted.extras),
                            !.cleaned = AppendExtras(st.cleaned, extraResName, sorted.extras)]

\* The Selector case of the switch.
VerifySelector(st, extraResName, resources, selector) ==
    IF selector.isNil
    THEN [st EXCEPT !.err = "panic"]
    ELSE IF selector.minMatch # NilInt /\ Len(resources) < selector.minMatch
    THEN [st EXCEPT !.err = "error"]
    ELSE LET sorted == sortExtrasByFieldPath(resources, GetSortByFieldPath(selector)) IN
         IF sorted.err # "nil"
         THEN [st EXCEPT !.err = "error"]
         ELSE LET kept == IF selector.maxMatch # NilInt /\ Len(sorted.extras) > selector.maxMatch
                          THEN SubSeq(sorted.extras, 1, selector.maxMatch)
                          ELSE sorted.extras
              IN [st EXCEPT !.raw = Put(st.raw, extraResName, sorted.extras),
                            !.cleaned = AppendExtras(st.cleaned, extraResName, kept)]

\* One iteration of the loop over in.Spec.ExtraResources.
VerifySource(st, extraResource, policy) ==
    LET extraResName == RequirementKey(extraResource) IN
    IF extraResName \notin DOMAIN st.raw
    THEN [st EXCEPT !.err = "error"]
    ELSE LET resources == st.raw[extraResName] IN
         CASE SourceGetType(extraResource) = ResourceSourceTypeReference ->
                VerifyReference(st, extraResName, resources, policy)
           [] SourceGetType(extraResource) = ResourceSourceTypeSelector ->
                VerifySelector(st, extraResName, resources, extraResource.selector)
           [] OTHER -> st

RECURSIVE VerifyLoop(_, _, _)
VerifyLoop(sources, policy, st) ==
    IF sources = <<>> THEN st
    ELSE LET step == VerifySource(st, Head(sources), policy) IN
         IF step.err # "nil" THEN step
         ELSE VerifyLoop(Tail(sources), policy, step)

\* verifyAndSortExtras(in, extraResources): (cleanedExtras, nil), (nil, err)
\* or a panic.
verifyAndSortExtras(i, extraResources) ==
    LET st == VerifyLoop(i.extraResources, i.policy,
                         [err |-> "nil", cleaned |-> EmptyMap, raw |-> extraResources])
    IN [err |-> st.err, extras |-> IF st.err = "nil" THEN st.cleaned ELSE EmptyMap]

----------------------------------------------------------------------------
(* The inputs of the model. *)

Intos == {"obj-0", "obj-1"}
LabelKeys == {"foo", "bar"}
FieldPaths == {"spec.present", "spec.missing"}
FieldPathPolicies == {NilStr, FromFieldPathPolicyRequired, FromFieldPathPolicyOptional}

Matcher(type, key, value, path, policy) ==
    [type |-> type, key |-> key, value |-> value,
     valueFromFieldPath |-> path, fromFieldPathPolicy |-> policy]

\* Value matchers, with and without their literal.
ValueMatchers ==
    {Matcher(ResourceSourceSelectorLabelMatcherTypeValue, k, v, NilStr, NilStr) :
        k \in LabelKeys, v \in {NilStr, "bar"}}

\* Field path matchers; the one that sets no policy sets no type either.
FieldPathMatchers ==
    {Matcher(IF pol = NilStr THEN ""
             ELSE ResourceSourceSelectorLabelMatcherTypeFromCompositeFieldPath,
             "foo", NilStr, path, pol) :
        path \in FieldPaths, pol \in FieldPathPolicies}

LabelMatchers == ValueMatchers \cup FieldPathMatchers

Selector(minMatch, maxMatch, sortBy, matchLabels) ==
    [isNil |-> FALSE, minMatch |-> minMatch, maxMatch |-> maxMatch,
     sortByFieldPath |-> sortBy, matchLabels |-> matchLabels]

NilSelector ==
    [isNil |-> TRUE, minMatch |-> NilInt, maxMatch |-> NilInt,
     sortByFieldPath |-> "", matchLabels |-> <<>>]

Source(type, into, namespace, ref, selector) ==
    [type |-> type, into |-> into, namespace |-> namespace, ref |-> ref,
     selector |-> selector,
     kind |-> "EnvironmentConfig", apiVersion |-> "apiextensions.crossplane.io/v1beta1"]

FooBar == Matcher(ResourceSourceSelectorLabelMatcherTypeValue, "foo", "bar", NilStr, NilStr)

\* The composite resources: one holds spec.present, one holds no field the
\* matchers name.
CompositeObjects == {[p \in {"spec.present"} |-> "someMoreBar"], EmptyMap}

\* Sources for buildRequirements: references, with and without a namespace
\* and a ref, and selectors of one literal label.
SimpleSources ==
    {Source(t, into, IF t = "" THEN NilStr ELSE "my-namespace",
            IF t = "" THEN "my-env-config" ELSE "my-second-env-config", NilSelector) :
        t \in {"", ResourceSourceTypeReference}, into \in Intos}
    \cup {Source(ResourceSourceTypeSelector, into, "my-namespace", NilStr,
                 Selector(NilInt, NilInt, "", <<FooBar>>)) : into \in Intos}
    \cup {Source(ResourceSourceTypeReference, "obj-1", NilStr, NilStr, NilSelector)}

\* Selectors over every list of label matchers.
RichSources ==
    {Source(ResourceSourceTypeSelector, "obj-0", NilStr, NilStr,
            Selector(NilInt, NilInt, "", ml)) :
        ml \in SeqsUpTo(LabelMatchers, MaxMatchers)}

\* The list simple with the source rich at position i; simple itself when
\* i = 0.
WithRichAt(simple, i, rich) ==
    [j \in 1..Len(simple) |-> IF j = i THEN rich ELSE simple[j]]

InputDoc(sources, policy) ==
    [valid |-> TRUE, extraResources |-> sources, policy |-> policy, contextKey |-> NilStr]

\* The input with spec.context.key set, as the test CustomContextKey writes
\* it.
CustomContextKey == "apiextensions.crossplane.io/environment"
WithContextKey(doc, key) == [doc EXCEPT !.contextKey = key]

\* An input request.GetInput cannot decode.
BadInput ==
    [valid |-> FALSE, extraResources |-> <<>>, policy |-> NilStr, contextKey |-> NilStr]

\* Sources for whole invocations.
RunSources ==
    {Source("", "obj-0", "my-namespace", "my-env-config", NilSelector),
     Source(ResourceSourceTypeReference, "obj-1", NilStr, "my-second-env-config", NilSelector),
     Source(ResourceSourceTypeSelector, "obj-0", NilStr, NilStr,
            Selector(1, 1, "", <<FooBar>>)),
     Source(ResourceSourceTypeSelector, "obj-1", "my-namespace", NilStr,
            Selector(NilInt, NilInt, "metadata.name",
                     <<Matcher("", "foo", NilStr, "spec.present", FromFieldPathPolicyOptional)>>)),
     Source(ResourceSourceTypeSelector, "obj-1", NilStr, NilStr,
            Selector(NilInt, NilInt, "",
                     <<Matcher("", "foo", NilStr, "spec.missing", NilStr)>>)),
     Source(ResourceSourceTypeSelector, "obj-1", NilStr, NilStr,
            Selector(NilInt, NilInt, "",
                     <<Matcher(ResourceSourceSelectorLabelMatcherTypeValue, "foo", NilStr,
                               NilStr, NilStr)>>))}

RunInputs ==
    {WithContextKey(InputDoc(l, pol), key) :
        l \in SeqsUpTo(RunSources, MaxSources), pol \in {NilStr, "Optional"},
        key \in {NilStr, CustomContextKey}}
    \cup {BadInput}

Composite(object) == [valid |-> TRUE, object |-> object]

\* A composite resource request.GetObservedCompositeResource cannot decode.
BadComposite == [valid |-> FALSE, object |-> EmptyMap]

StringValue(str) == [kind |-> "string", s |-> str, n |-> 0]

\* A JSON number: float64 once decoded.
FloatValue(num) == [kind |-> "float64", s |-> "", n |-> num]

Resource(id, fields) == [id |-> id, fields |-> fields]

\* The objects the resolver can supply.
RunResources ==
    {Resource(name, [p \in {"metadata.name"} |-> StringValue(name)]) : name \in {"a", "b"}}

\* Lists of distinct objects.
DistinctSeqs(S, n) ==
    {l \in SeqsUpTo(S, n) : \A i, j \in 1..Len(l) : i # j => l[i] # l[j]}

ExtraResources(m) == [isNil |-> FALSE, valid |-> TRUE, m |-> m]

\* req.ExtraResources == nil
NilExtraResources == [isNil |-> TRUE, valid |-> TRUE, m |-> EmptyMap]

\* Extra resources request.GetExtraResources cannot decode.
BadExtraResources == [isNil |-> FALSE, valid |-> FALSE, m |-> EmptyMap]

RunExtraResources ==
    {ExtraResources(m) :
        m \in UNION {[keys -> DistinctSeqs(RunResources, MaxExtras)] : keys \in SUBSET Intos}}
    \cup {NilExtraResources, BadExtraResources}

----------------------------------------------------------------------------
(* RunFunction (fn.go). *)

FunctionContextKeyExtraResources == "apiextensions.crossplane.io/extra-resources"

\* response.To(req, response.DefaultTTL), for a request that carries no context
NewResponse ==
    [requirements |-> [isNil |-> TRUE, m |-> EmptyMap],
     results      |-> <<>>,
     context      |-> EmptyMap]

\* response.Fatal(rsp, err)
Fatal(r) == [r EXCEPT !.results = Append(@, "SEVERITY_FATAL")]

NoInput == [extraResources |-> <<>>, policy |-> NilStr]
NoRequirements == [err |-> "unset", reqs |-> EmptyMap]
NoVerifiedExtras == [err |-> "unset", extras |-> EmptyMap]
NoResponse == [set |-> FALSE, ret |-> "none", rsp |-> NewResponse]

\* sortExtrasByFieldPath has not been called on its own.
NoSort ==
    /\ sortExtras = <<>>
    /\ sortPath = ""
    /\ sortErr = "unset"
    /\ sortCalls = 0
    /\ sortBefore = <<>>
    /\ sortInput = <<>>

\* No composite-mode projection has run.
NoMerge ==
    /\ existing = EmptyMap
    /\ computed = EmptyMap
    /\ merged = EmptyMap

\* json.Marshal, then protojson.Unmarshal into a structpb.Struct: every number
\* of a structpb.Struct is a float64.
StructValue(val) ==
    IF val.kind \in {"float32", "int64", "int32", "int16", "int8", "int"}
    THEN [val EXCEPT !.kind = "float64"]
    ELSE val

StructObject(resource) ==
    [resource EXCEPT !.fields = [p \in DOMAIN resource.fields |-> StructValue(resource.fields[p])]]

StructOf(cleaned) ==
    [k \in DOMAIN cleaned |-> [i \in 1..Len(cleaned[k]) |-> StructObject(cleaned[k][i])]]

\* return rsp, nil / return nil, err / a panic
Return(response, how) ==
    /\ rsp' = response
    /\ ret' = how
    /\ pc' = "done"
    /\ rsp1' = IF extras.isNil
               THEN [set |-> TRUE, ret |-> how, rsp |-> response]
               ELSE rsp1

Goto(label) ==
    /\ pc' = label
    /\ UNCHANGED <<ret, rsp1>>

\* The caller runs the function: first without extra resources, and again
\* with the same input and composite resource, with or without them.
Request ==
    /\ pc = "idle"
    /\ extras' = NilExtraResources
    /\ pc' = "GetInput"
    /\ rsp' = NewResponse
    /\ ran' = {}
    /\ UNCHANGED <<input, xr, in, ret, requirements, verifiedExtras, rsp1>>
    /\ UNCHANGED sortVars
    /\ UNCHANGED mergeVars

Resume ==
    /\ pc = "done"
    /\ \E e \in RunExtraResources : extras' = e
    /\ pc' = "GetInput"
    /\ rsp' = NewResponse
    /\ ret' = "none"
    /\ in' = NoInput
    /\ requirements' = NoRequirements
    /\ verifiedExtras' = NoVerifiedExtras
    /\ ran' = {}
    /\ UNCHANGED <<input, xr, rsp1>>
    /\ UNCHANGED sortVars
    /\ UNCHANGED mergeVars

\* request.GetInput(req, in)
GetInput ==
    /\ pc = "GetInput"
    /\ ran' = ran \cup {"GetInput"}
    /\ IF ~input.valid
       THEN /\ Return(Fatal(rsp), "rsp")
            /\ UNCHANGED in
       ELSE /\ in' = DecodeInput(input)
            /\ Goto("GetObservedCompositeResource")
            /\ UNCHANGED rsp
    /\ UNCHANGED <<input, xr, extras, requirements, verifiedExtras>>
    /\ UNCHANGED sortVars
    /\ UNCHANGED mergeVars

\* request.GetObservedCompositeResource(req)
GetObservedCompositeResource ==
    /\ pc = "GetObservedCompositeResource"
    /\ ran' = ran \cup {"GetObservedCompositeResource"}
    /\ IF ~xr.valid
       THEN Return(Fatal(rsp), "rsp")
       ELSE Goto("buildRequirements") /\ UNCHANGED rsp
    /\ UNCHANGED <<input, xr, extras, in, requirements, verifiedExtras>>
    /\ UNCHANGED sortVars
    /\ UNCHANGED mergeVars

\* BuildRequirements with rsp.Requirements set on the early return only.
BuildRequirements_PhaseOneOnly ==
    /\ pc = "buildRequirements"
    /\ ran' = ran \cup {"buildRequirements"}
    /\ requirements' = buildRequirements(in, xr.object)
    /\ CASE requirements'.err = "panic" -> Return(rsp, "panic")
         [] requirements'.err = "error" -> Return(Fatal(rsp), "rsp")
         [] OTHER ->
              /\ rsp' = IF extras.isNil
                        THEN [rsp EXCEPT !.requirements =
                                            [isNil |-> FALSE, m |-> requirements'.reqs]]
                        ELSE rsp
              /\ Goto("ExtraResources")
    /\ UNCHANGED <<input, xr, extras, in, verifiedExtras>>
    /\ UNCHANGED sortVars
    /\ UNCHANGED mergeVars

\* requirements, err := buildRequirements(in, oxr); rsp.Requirements = requirements
BuildRequirements ==
    /\ pc = "buildRequirements"
    /\ ran' = ran \cup {"buildRequirements"}
    /\ requirements' = buildRequirements(in, xr.object)
    /\ CASE requirements'.err = "panic" -> Return(rsp, "panic")
         [] requirements'.err = "error" -> Return(Fatal(rsp), "rsp")
         [] OTHER ->
              /\ rsp' = [rsp EXCEPT !.requirements = [isNil |-> FALSE, m |-> requirements'.reqs]]
              /\ Goto("ExtraResources")
    /\ UNCHANGED <<input, xr, extras, in, verifiedExtras>>
    /\ UNCHANGED sortVars
    /\ UNCHANGED mergeVars

\* CheckExtraResources without the early return.
CheckExtraResources_NoReturn ==
    /\ pc = "ExtraResources"
    /\ ran' = ran \cup {"ExtraResources"}
    /\ Goto("GetExtraResources")
    /\ UNCHANGED <<input, xr, extras, in, rsp, requirements, verifiedExtras>>
    /\ UNCHANGED sortVars
    /\ UNCHANGED mergeVars

\* if req.ExtraResources == nil { return rsp, nil }
CheckExtraResources ==
    /\ pc = "ExtraResources"
    /\ ran' = ran \cup {"ExtraResources"}
    /\ IF extras.isNil
       THEN Return(rsp, "rsp")
       ELSE Goto("GetExtraResources") /\ UNCHANGED rsp
    /\ UNCHANGED <<input, xr, extras, in, requirements, verifiedExtras>>
    /\ UNCHANGED sortVars
    /\ UNCHANGED mergeVars

\* request.GetExtraResources(req)
GetExtraResources ==
    /\ pc = "GetExtraResources"
    /\ ran' = ran \cup {"GetExtraResources"}
    /\ IF ~extras.valid
       THEN Return(Fatal(rsp), "rsp")
       ELSE Goto("verifyAndSortExtras") /\ UNCHANGED rsp
    /\ UNCHANGED <<input, xr, extras, in, requirements, verifiedExtras>>
    /\ UNCHANGED sortVars
    /\ UNCHANGED mergeVars

\* VerifyAndSortExtras recording the error as a fatal result and going on.
VerifyAndSortExtras_FatalAndContinue ==
    /\ pc = "verifyAndSortExtras"
    /\ ran' = ran \cup {"verifyAndSortExtras"}
    /\ verifiedExtras' = verifyAndSortExtras(in, extras.m)
    /\ CASE verifiedExtras'.err = "panic" -> Return(rsp, "panic")
         [] verifiedExtras'.err = "error" -> rsp' = Fatal(rsp) /\ Goto("SetContextKey")
         [] OTHER -> Goto("SetContextKey") /\ UNCHANGED rsp
    /\ UNCHANGED <<input, xr, extras, in, requirements>>
    /\ UNCHANGED sortVars
    /\ UNCHANGED mergeVars

\* verifiedExtras, err := verifyAndSortExtras(in, extraResources)
VerifyAndSortExtras ==
    /\ pc = "verifyAndSortExtras"
    /\ ran' = ran \cup {"verifyAndSortExtras"}
    /\ verifiedExtras' = verifyAndSortExtras(in, extras.m)
    /\ CASE verifiedExtras'.err = "panic" -> Return(rsp, "panic")
         [] verifiedExtras'.err = "error" -> Return(rsp, "err")
         [] OTHER -> Goto("SetContextKey") /\ UNCHANGED rsp
    /\ UNCHANGED <<input, xr, extras, in, requirements>>
    /\ UNCHANGED sortVars
    /\ UNCHANGED mergeVars

\* SetContextKey writing the matches as they were supplied.
SetContextKey_Raw ==
    /\ pc = "SetContextKey"
    /\ ran' = ran \cup {"SetContextKey"}
    /\ Return([rsp EXCEPT !.context = Put(@, FunctionContextKeyExtraResources,
                                           StructOf(extras.m))],
              "rsp")
    /\ UNCHANGED <<input, xr, extras, in, requirements, verifiedExtras>>
    /\ UNCHANGED sortVars
    /\ UNCHANGED mergeVars

\* json.Marshal(verifiedExtras), protojson.Unmarshal(b, s) and
\* response.SetContextKey(rsp, FunctionContextKeyExtraResources, s).  The
\* documents of the model all marshal.
SetContextKey ==
    /\ pc = "SetContextKey"
    /\ ran' = ran \cup {"SetContextKey"}
    /\ Return([rsp EXCEPT !.context = Put(@, FunctionContextKeyExtraResources,
                                           StructOf(verifiedExtras.extras))],
              "rsp")
    /\ UNCHANGED <<input, xr, extras, in, requirements, verifiedExtras>>
    /\ UNCHANGED sortVars
    /\ UNCHANGED mergeVars

Init ==
    /\ input \in RunInputs
    /\ xr \in {Composite(o) : o \in CompositeObjects} \cup {BadComposite}
    /\ extras = NilExtraResources
    /\ in = NoInput
    /\ pc = "idle"
    /\ rsp = NewResponse
    /\ ret = "none"
    /\ requirements = NoRequirements
    /\ verifiedExtras = NoVerifiedExtras
    /\ ran = {}
    /\ rsp1 = NoResponse
    /\ NoSort
    /\ NoMerge

Next ==
    \/ Request
    \/ Resume
    \/ GetInput
    \/ GetObservedCompositeResource
    \/ BuildRequirements
    \/ CheckExtraResources
    \/ GetExtraResources
    \/ VerifyAndSortExtras
    \/ SetContextKey

Spec == Init /\ [][Next]_vars

\* buildRequirements alone, on every list of at most MaxSources sources that
\* has a selector of RichSources at one position at most.
InitBuild ==
    /\ \E n \in 0..MaxSources : \E i \in 0..n :
       \E simple \in [1..n -> SimpleSources] :
       \E rich \in IF i = 0 THEN {simple} ELSE RichSources :
            input = InputDoc(WithRichAt(simple, i, rich), NilStr)
    /\ xr \in {Composite(o) : o \in CompositeObjects}
    /\ extras = NilExtraResources
    /\ in = DecodeInput(input)
    /\ pc = "buildRequirements"
    /\ rsp = NewResponse
    /\ ret = "none"
    /\ requirements = NoRequirements
    /\ verifiedExtras = NoVerifiedExtras
    /\ ran = {}
    /\ rsp1 = NoResponse
    /\ NoSort
    /\ NoMerge

NextBuild == BuildRequirements

SpecBuild == InitBuild /\ [][NextBuild]_vars

\* Sources for verifyAndSortExtras: references, and a selector that sets
\* neither minMatch nor maxMatch.
VerifySimpleSources ==
    {Source("", "obj-1", NilStr, "my-env-config", NilSelector),
     Source(ResourceSourceTypeReference, "obj-0", NilStr, "my-second-env-config", NilSelector),
     Source(ResourceSourceTypeSelector, "obj-1", NilStr, NilStr,
            Selector(NilInt, NilInt, "", <<FooBar>>))}

\* Selectors over minMatch, maxMatch and sortByFieldPath.
VerifyRichSources ==
    {Source(ResourceSourceTypeSelector, "obj-0", NilStr, NilStr,
            Selector(minMatch, maxMatch, sortBy, <<FooBar>>)) :
        minMatch \in {NilInt, 1, 2, 3}, maxMatch \in {NilInt, 0, 1, 2},
        sortBy \in {"", "spec.key"}}

\* The candidates the resolver can supply: their names and their spec.key
\* order them differently.
VerifyResources ==
    {Resource("r1", [p \in {"metadata.name", "spec.key"} |->
                        IF p = "metadata.name" THEN StringValue("c") ELSE FloatValue(3)]),
     Resource("r2", [p \in {"metadata.name", "spec.key"} |->
                        IF p = "metadata.name" THEN StringValue("b") ELSE FloatValue(1)]),
     Resource("r3", [p \in {"metadata.name", "spec.key"} |->
                        IF p = "metadata.name" THEN StringValue("a") ELSE FloatValue(2)])}

\* The lists supplied under obj-1: no, one and two candidates.
VerifySimpleLists ==
    {l \in SeqsUpTo(VerifyResources, 2) : \A a \in 1..Len(l) : l[a].id = <<"r2", "r1">>[a]}

\* The raw matches of a lone call: lists of candidates under the keys, either
\* key absent.
VerifyExtraResources ==
    LET lists == [k \in Intos |-> IF k = "obj-0"
                                  THEN DistinctSeqs(VerifyResources, MaxCandidates)
                                  ELSE VerifySimpleLists]
    IN {ExtraResources(EmptyMap)}
       \cup UNION {{ExtraResources([k \in {key} |-> l]) : l \in lists[key]} : key \in Intos}
       \cup {ExtraResources([k \in Intos |-> IF k = "obj-0" THEN l0 ELSE l1]) :
                l0 \in lists["obj-0"], l1 \in lists["obj-1"]}

\* verifyAndSortExtras alone, on every list of at most MaxSources sources
\* that has a selector of VerifyRichSources at one position at most, with
\* every arrival order of distinct candidates under obj-0.
InitVerify ==
    /\ \E n \in 0..MaxSources : \E i \in 0..n :
       \E simple \in [1..n -> VerifySimpleSources] :
       \E rich \in IF i = 0 THEN {simple} ELSE VerifyRichSources :
       \E policy \in {NilStr, "Required", "Optional"} :
            input = InputDoc(WithRichAt(simple, i, rich), policy)
    /\ xr = Composite(EmptyMap)
    /\ extras \in VerifyExtraResources
    /\ in = DecodeInput(input)
    /\ pc = "verifyAndSortExtras"
    /\ rsp = NewResponse
    /\ ret = "none"
    /\ requirements = NoRequirements
    /\ verifiedExtras = NoVerifiedExtras
    /\ ran = {}
    /\ rsp1 = NoResponse
    /\ NoSort
    /\ NoMerge

NextVerify == VerifyAndSortExtras

SpecVerify == InitVerify /\ [][NextVerify]_vars

IntValue(num) == [kind |-> "int", s |-> "", n |-> num]
BoolValue(num) == [kind |-> "bool", s |-> "", n |-> num]
\* A lookup that fails with an error that is not IsNotFound.
ErrorValue == [kind |-> "error", s |-> "", n |-> 0]

\* The object has no field at the path.
AbsentValue == [kind |-> "absent", s |-> "", n |-> 0]

\* What a candidate can hold at spec.key: no such field, a null, strings,
\* numbers around zero, a number of another type, a bool, and an object in
\* which the lookup fails.
SortValues ==
    {AbsentValue, NilValue, StringValue(""), StringValue("a"), StringValue("b"),
     FloatValue(0 - 1), FloatValue(0), FloatValue(1), IntValue(1), BoolValue(1), ErrorValue}

\* The candidate at position i of a list, holding val at spec.key.
Candidate(i, val) ==
    Resource(i, IF val = AbsentValue THEN EmptyMap ELSE [p \in {"spec.key"} |-> val])

\* The lists of maxInsertion + 1 candidates over two strings.
LongLists ==
    {[i \in 1..(maxInsertion + 1) |-> Candidate(i, StringValue(vals[i]))] :
        vals \in [1..(maxInsertion + 1) -> {"a", "b"}]}

\* err := sortExtrasByFieldPath(extras, path), called on the same slice again
\* and again.
SortExtrasByFieldPath ==
    /\ pc = "sortExtrasByFieldPath"
    /\ sortCalls < MaxSortCalls
    /\ LET sorted == sortExtrasByFieldPath(sortExtras, sortPath) IN
         /\ sortErr' = sorted.err
         /\ sortExtras' = sorted.extras
    /\ sortBefore' = sortExtras
    /\ sortCalls' = sortCalls + 1
    /\ UNCHANGED <<input, xr, extras, in, pc, rsp, ret, requirements, verifiedExtras,
                   ran, rsp1, sortPath, sortInput>>
    /\ UNCHANGED mergeVars

\* sortExtrasByFieldPath alone.
InitSort ==
    /\ input = BadInput
    /\ xr = BadComposite
    /\ extras = NilExtraResources
    /\ in = NoInput
    /\ pc = "sortExtrasByFieldPath"
    /\ rsp = NewResponse
    /\ ret = "none"
    /\ requirements = NoRequirements
    /\ verifiedExtras = NoVerifiedExtras
    /\ ran = {}
    /\ rsp1 = NoResponse
    /\ NoMerge
    /\ \/ /\ \E n \in 0..MaxList : \E vals \in [1..n -> SortValues] :
                sortExtras = [i \in 1..n |-> Candidate(i, vals[i])]
          /\ sortPath \in {"spec.key", ""}
       \/ /\ sortExtras \in LongLists
          /\ sortPath = "spec.key"
    /\ sortErr = "unset"
    /\ sortCalls = 0
    /\ sortBefore = sortExtras
    /\ sortInput = sortExtras

NextSort == SortExtrasByFieldPath

SpecSort == InitSort /\ [][NextSort]_vars

\* sortExtrasByFieldPath called by a test or by verifyAndSortExtras.
InitSortVerify == InitSort \/ InitVerify

NextSortVerify == NextSort \/ NextVerify

SpecSortVerify == InitSortVerify /\ [][NextSortVerify]_vars

----------------------------------------------------------------------------
(* Composite-mode projection.  fn.go holds no code for it: RunFunction      *)
(* (fn.go:99-110) writes the verified resources under the context key and   *)
(* reads no document that was there before.  The merge is modelled from     *)
(* the specification of the deep merge: the result holds the keys of both   *)
(* documents; a key that is a mapping in both is merged recursively; any    *)
(* other key of the overlay overwrites.                                     *)

\* A value of a document: a scalar, or a mapping from keys to values.
ScalarValue(num) == [kind |-> "scalar", v |-> num, m |-> EmptyMap]
MappingValue(doc) == [kind |-> "mapping", v |-> 0, m |-> doc]

\* The merge that overwrites every key of the base the overlay holds.
DeepMerge_Shallow(a, b) ==
    [key \in (DOMAIN a) \cup (DOMAIN b) |-> IF key \in DOMAIN b THEN b[key] ELSE a[key]]

\* The deep merge of the base a with the overlay b.
RECURSIVE DeepMerge(_, _)
DeepMerge(a, b) ==
    [key \in (DOMAIN a) \cup (DOMAIN b) |->
        IF key \notin DOMAIN b THEN a[key]
        ELSE IF key \notin DOMAIN a THEN b[key]
        ELSE IF a[key].kind = "mapping" /\ b[key].kind = "mapping"
        THEN MappingValue(DeepMerge(a[key].m, b[key].m))
        ELSE b[key]]

\* The documents of the model: the keys a and b hold a scalar or a mapping
\* that holds scalars under the keys x and y.
ScalarValues == {ScalarValue(1), ScalarValue(2)}
InnerDocuments == UNION {[keys -> ScalarValues] : keys \in SUBSET {"x", "y"}}
Documents ==
    UNION {[keys -> ScalarValues \cup {MappingValue(d) : d \in InnerDocuments}] :
            keys \in SUBSET {"a", "b"}}

\* The projection merges the computed data over the pre-existing document.
MergeDocuments ==
    /\ pc = "merge"
    /\ merged' = DeepMerge(existing, computed)
    /\ pc' = "done"
    /\ UNCHANGED <<input, xr, extras, in, rsp, ret, requirements, verifiedExtras, ran, rsp1,
                   existing, computed>>
    /\ UNCHANGED sortVars

InitMerge ==
    /\ input = BadInput
    /\ xr = BadComposite
    /\ extras = NilExtraResources
    /\ in = NoInput
    /\ pc = "merge"
    /\ rsp = NewResponse
    /\ ret = "none"
    /\ requirements = NoRequirements
    /\ verifiedExtras = NoVerifiedExtras
    /\ ran = {}
    /\ rsp1 = NoResponse
    /\ NoSort
    /\ existing \in Documents
    /\ computed \in Documents
    /\ merged = EmptyMap

NextMerge == MergeDocuments

SpecMerge == InitMerge /\ [][NextMerge]_vars

----------------------------------------------------------------------------
(* What the claims speak of. *)

Sources == in.extraResources
Requirements == requirements.reqs
Returned == pc = "done"
Built == requirements.err # "unset"
HasFatal == \E i \in 1..Len(rsp.results) : rsp.results[i] = "SEVERITY_FATAL"
HasOutput == DOMAIN rsp.context # {}
PhaseTwoSteps == {"GetExtraResources", "verifyAndSortExtras", "SetContextKey"}

IsFieldPathMatcher(m) ==
    m.type \in {"", ResourceSourceSelectorLabelMatcherTypeFromCompositeFieldPath}

\* The matcher yields a label: a literal, or a path the document holds.
Resolves(m, doc) ==
    \/ m.type = ResourceSourceSelectorLabelMatcherTypeValue /\ m.value # NilStr
    \/ IsFieldPathMatcher(m) /\ m.valueFromFieldPath \in DOMAIN doc

\* An Optional field path matcher whose path the document does not hold.
MissingOptional(m, doc) ==
    /\ IsFieldPathMatcher(m)
    /\ m.fromFieldPathPolicy = "Optional"
    /\ m.valueFromFieldPath # NilStr
    /\ m.valueFromFieldPath \notin DOMAIN doc

\* A Required (or unset) field path matcher whose path the document does not hold.
MissingRequired(m, doc) ==
    /\ IsFieldPathMatcher(m)
    /\ m.fromFieldPathPolicy \in {NilStr, "Required"}
    /\ m.valueFromFieldPath # NilStr
    /\ m.valueFromFieldPath \notin DOMAIN doc

IsSelector(src) == src.type = ResourceSourceTypeSelector /\ ~src.selector.isNil
IsReference(src) == src.type \in {"", ResourceSourceTypeReference}

\* A Selector whose matchers resolve to zero labels.
ZeroLabels(src, doc) ==
    /\ IsSelector(src)
    /\ \A k \in 1..Len(src.selector.matchLabels) :
            MissingOptional(src.selector.matchLabels[k], doc)

\* The sources that put a requirement in the map when the build succeeds.
Emitting(srcs, doc) ==
    {i \in 1..Len(srcs) :
        \/ IsReference(srcs[i])
        \/ IsSelector(srcs[i]) /\ \E k \in 1..Len(srcs[i].selector.matchLabels) :
                                        Resolves(srcs[i].selector.matchLabels[k], doc)}

\* Source i is the last emitting source of its key.
LastOfKey(srcs, doc, i) ==
    /\ i \in Emitting(srcs, doc)
    /\ \A j \in Emitting(srcs, doc) : j > i => srcs[j].into # srcs[i].into

\* The requirement is the one source src asks for.
RequirementOf(req, src) ==
    IF IsReference(src)
    THEN req.match = "MatchName" /\ req.matchName = src.ref
    ELSE req.match = "MatchLabels"

\* The labels the matchers ml select: for each key, the value of the last
\* matcher of that key that resolves.
LabelValue(m, doc) ==
    IF m.type = ResourceSourceSelectorLabelMatcherTypeValue THEN m.value
    ELSE doc[m.valueFromFieldPath]

SelectedLabels(ml, doc) ==
    LET resolving == {k \in 1..Len(ml) : Resolves(ml[k], doc)} IN
    [key \in {ml[k].key : k \in resolving} |->
        LET last == CHOOSE k \in resolving :
                        /\ ml[k].key = key
                        /\ \A k2 \in resolving : ml[k2].key = key => k2 <= k
        IN LabelValue(ml[last], doc)]

\* The decoded input without source i / without matcher k of source i.
WithoutSource(i) == [in EXCEPT !.extraResources = RemoveAt(@, i)]
WithoutMatcher(i, k) ==
    [in EXCEPT !.extraResources[i].selector.matchLabels = RemoveAt(@, k)]

----------------------------------------------------------------------------
\* C1: an invocation without extra resources whose requirements build
\* returns the response with the requirements built, no fatal result and no
\* output in the context, and runs none of the steps after the nil check
\* (fetching, verification, projection), at any point of the invocation.
C1_PhaseOneReturnsRequirementsOnly ==
    /\ extras.isNil => ran \cap PhaseTwoSteps = {} /\ verifiedExtras = NoVerifiedExtras
    /\ (Returned /\ extras.isNil /\ requirements.err = "nil") =>
            /\ ret = "rsp"
            /\ ~rsp.requirements.isNil
            /\ rsp.requirements.m = Requirements
            /\ ~HasFatal
            /\ ~HasOutput

C1_Witness ==
    /\ Returned /\ extras.isNil /\ requirements.err = "nil"
    /\ DOMAIN Requirements # {}

\* C2: for the same input and composite resource, every response returned
\* with extra resources supplied carries the requirement map the invocation
\* without extra resources returned; so does the one that holds the output.
C2_SameRequirementsInBothPhases ==
    (Returned /\ ~extras.isNil /\ ret = "rsp" /\ rsp1.set) =>
        /\ rsp1.ret = "rsp"
        /\ rsp.requirements = rsp1.rsp.requirements

C2_Witness ==
    /\ Returned /\ ~extras.isNil /\ ret = "rsp" /\ rsp1.set
    /\ HasOutput
    /\ Cardinality(DOMAIN rsp.requirements.m) = 2

\* C3: when verification of the supplied matches fails, RunFunction returns
\* a response and no error; the response has a fatal result and the
\* requirements of this call, and no output.
C3_VerifyFailureReturnsFatalResponse ==
    (Returned /\ verifiedExtras.err = "error") =>
        /\ ret = "rsp"
        /\ HasFatal
        /\ ~rsp.requirements.isNil /\ rsp.requirements.m = Requirements
        /\ ~HasOutput

\* C4: when buildRequirements succeeds on N sources the map has at most N
\* entries, none of them a label match with an empty label set, and a
\* Selector that resolves to zero labels has no entry: the map is the map of
\* the list without that source, and its key is absent unless another source
\* declares the same key.
C4_AtMostNAndNoEmptySelector ==
    requirements.err = "nil" =>
        /\ Cardinality(DOMAIN Requirements) <= Len(Sources)
        /\ \A key \in DOMAIN Requirements :
                Requirements[key].match = "MatchLabels" =>
                    DOMAIN Requirements[key].matchLabels # {}
        /\ \A i \in 1..Len(Sources) :
                ZeroLabels(Sources[i], xr.object) =>
                    /\ Requirements = buildRequirements(WithoutSource(i), xr.object).reqs
                    /\ (\A j \in 1..Len(Sources) : j # i => Sources[j].into # Sources[i].into)
                            => Sources[i].into \notin DOMAIN Requirements

C4_Witness ==
    /\ requirements.err = "nil"
    /\ Len(Sources) = 2
    /\ Cardinality(DOMAIN Requirements) = 1
    /\ \E i \in 1..Len(Sources) :
            /\ ZeroLabels(Sources[i], xr.object)
            /\ Len(Sources[i].selector.matchLabels) = 2
            /\ Sources[i].into \notin DOMAIN Requirements

C6_RequirementCarriesNamespace ==
    requirements.err = "nil" =>
        \A i \in 1..Len(Sources) :
            LastOfKey(Sources, xr.object, i) =>
                Requirements[Sources[i].into].namespace = input.extraResources[i].namespace

\* C7: if a Selector at any position has a Required (or unset) field path
\* matcher whose path the composite resource does not hold, buildRequirements
\* returns an error and the invocation ends with a fatal result and no
\* output, with or without extra resources, and verification is not run.
C7_MissingRequiredPathIsFatal ==
    (/\ Returned /\ input.valid /\ xr.valid
     /\ \E i \in 1..Len(input.extraResources) :
            /\ IsSelector(input.extraResources[i])
            /\ \E k \in 1..Len(input.extraResources[i].selector.matchLabels) :
                    MissingRequired(input.extraResources[i].selector.matchLabels[k], xr.object))
    =>  /\ requirements.err = "error"
        /\ ret = "rsp"
        /\ HasFatal
        /\ ~HasOutput
        /\ "verifyAndSortExtras" \notin ran

\* C8: an Optional field path matcher whose path is missing is skipped
\* without error and skips only itself: buildRequirements returns what it
\* returns for the input without that matcher, and the labels emitted for
\* the selector are those of all its matchers that resolve, wherever the
\* skipped matcher stands.
C8_OptionalMatcherSkipsOnlyItself ==
    Built =>
        \A i \in 1..Len(Sources) :
            IsSelector(Sources[i]) =>
                LET ml == Sources[i].selector.matchLabels IN
                \A k \in 1..Len(ml) :
                    MissingOptional(ml[k], xr.object) =>
                        /\ requirements = buildRequirements(WithoutMatcher(i, k), xr.object)
                        /\ (requirements.err = "nil" /\ LastOfKey(Sources, xr.object, i)) =>
                                Requirements[Sources[i].into].matchLabels
                                    = SelectedLabels(ml, xr.object)

C8_Witness ==
    /\ requirements.err = "nil"
    /\ \E i \in 1..Len(Sources) :
            /\ IsSelector(Sources[i])
            /\ Len(Sources[i].selector.matchLabels) = 2
            /\ MissingOptional(Sources[i].selector.matchLabels[1], xr.object)
            /\ Resolves(Sources[i].selector.matchLabels[2], xr.object)
            /\ IsFieldPathMatcher(Sources[i].selector.matchLabels[2])
            /\ LastOfKey(Sources, xr.object, i)
            /\ DOMAIN Requirements[Sources[i].into].matchLabels = {"foo"}

\* C9: a Value matcher without its literal makes buildRequirements return an
\* error; it never panics and never emits a label for the matcher.
C9_NilValueIsAnError ==
    (/\ Built
     /\ \E i \in 1..Len(Sources) :
            /\ IsSelector(Sources[i])
            /\ \E k \in 1..Len(Sources[i].selector.matchLabels) :
                    /\ Sources[i].selector.matchLabels[k].type
                            = ResourceSourceSelectorLabelMatcherTypeValue
                    /\ Sources[i].selector.matchLabels[k].value = NilStr)
    => requirements.err = "error"

\* C10: if the key of any declared source is absent from the supplied
\* matches, verifyAndSortExtras returns an error, whatever the type of the
\* source, the resolution policy and the lists of the other sources.
C10_MissingKeyIsAnError ==
    (/\ verifiedExtras.err # "unset"
     /\ \E i \in 1..Len(Sources) : Sources[i].into \notin DOMAIN extras.m)
    => verifiedExtras.err = "error"

----------------------------------------------------------------------------
(* What the claims about verifyAndSortExtras speak of. *)

\* The raw matches supplied with the request.
Raw == extras.m
Verified == verifiedExtras.err # "unset"
KeyOf(i) == Sources[i].into
HasKey(i) == KeyOf(i) \in DOMAIN Raw
\* The number of raw candidates supplied for source i.
RawCount(i) == Len(Raw[KeyOf(i)])
PolicyOptional == in.policy = "Optional"

\* The loop of verifyAndSortExtras as it stands when it comes to source i,
\* and after it.
StateBefore(i) ==
    VerifyLoop(SubSeq(Sources, 1, i - 1), in.policy,
               [err |-> "nil", cleaned |-> EmptyMap, raw |-> Raw])
Reached(i) == StateBefore(i).err = "nil"
StateAfter(i) == VerifySource(StateBefore(i), Sources[i], in.policy)

\* What source i appended to the output.
Contribution(i) ==
    LET k == KeyOf(i)
        old == IF k \in DOMAIN StateBefore(i).cleaned THEN StateBefore(i).cleaned[k] ELSE <<>>
        new == IF k \in DOMAIN StateAfter(i).cleaned THEN StateAfter(i).cleaned[k] ELSE <<>>
    IN SubSeq(new, Len(old) + 1, Len(new))

\* C11: a Reference source whose key is present with zero candidates, under
\* policy Required or no policy, makes verification return an ordinary error:
\* no crash, and nothing in the output.
C11_ZeroMatchesRequiredIsAnError ==
    Verified =>
        \A i \in 1..Len(Sources) :
            (IsReference(Sources[i]) /\ HasKey(i) /\ RawCount(i) = 0 /\ ~PolicyOptional)
                => /\ verifiedExtras.err = "error"
                   /\ verifiedExtras.extras = EmptyMap

\* C12: a Reference source with zero raw matches under policy Optional is
\* passed over: the outcome of verification is the outcome for the input
\* without that source, so it raises no error, adds no key and no value, and
\* the sources after it are verified.
C12_ZeroMatchesOptionalIsSkipped ==
    Verified =>
        \A i \in 1..Len(Sources) :
            (IsReference(Sources[i]) /\ HasKey(i) /\ RawCount(i) = 0 /\ PolicyOptional)
                => /\ verifiedExtras = verifyAndSortExtras(WithoutSource(i), Raw)
                   /\ Len(Sources) = 1 => verifiedExtras.err = "nil"
                   /\ verifiedExtras.err = "nil" => KeyOf(i) \notin DOMAIN verifiedExtras.extras
                   /\ Reached(i) => Contribution(i) = <<>> /\ StateAfter(i).err = "nil"

\* A skipped reference comes first and a later source still contributes.
C12_Witness ==
    /\ Verified
    /\ Len(Sources) = 2
    /\ IsReference(Sources[1]) /\ HasKey(1) /\ RawCount(1) = 0 /\ PolicyOptional
    /\ verifiedExtras.err = "nil"
    /\ DOMAIN verifiedExtras.extras = {KeyOf(2)}

\* C13: a Reference source with more than one raw match makes verification
\* fail with an error under every policy, and on success a Reference source
\* that has a match contributes exactly one resource.
C13_AmbiguousReferenceIsAnError ==
    Verified =>
        \A i \in 1..Len(Sources) :
            (IsReference(Sources[i]) /\ HasKey(i))
                => /\ RawCount(i) > 1 => verifiedExtras.err = "error"
                   /\ (verifiedExtras.err = "nil" /\ RawCount(i) > 0)
                        => Len(Contribution(i)) = 1

\* C14: for a Selector source with minMatch set, verification fails if the
\* number of raw candidates is below minMatch, and the source passes if it
\* is not, whatever maxMatch is: the count is the one before sorting and
\* before truncation.
C14_MinMatchCountsRawCandidates ==
    Verified =>
        \A i \in 1..Len(Sources) :
            (IsSelector(Sources[i]) /\ HasKey(i) /\ Sources[i].selector.minMatch # NilInt)
                => /\ RawCount(i) < Sources[i].selector.minMatch
                        => /\ verifiedExtras.err # "nil"
                           /\ Reached(i) => StateAfter(i).err = "error"
                   /\ (RawCount(i) >= Sources[i].selector.minMatch /\ Reached(i))
                        => /\ StateAfter(i).err = "nil"
                           /\ i = Len(Sources) => verifiedExtras.err = "nil"

\* maxMatch is below minMatch, there are minMatch candidates, and
\* verification succeeds with the list truncated.
C14_Witness ==
    /\ Verified
    /\ Len(Sources) = 1 /\ IsSelector(Sources[1]) /\ HasKey(1)
    /\ Sources[1].selector.minMatch = 2 /\ Sources[1].selector.maxMatch = 1
    /\ RawCount(1) = 2
    /\ verifiedExtras.err = "nil"
    /\ Len(verifiedExtras.extras[KeyOf(1)]) = 1

\* The value a candidate holds at the path, as a number: the rank of a string
\* in lexicographic order, the number itself, the zero value when there is
\* none.
SortKey(resource, path) ==
    IF path \notin DOMAIN resource.fields \/ resource.fields[path].kind = "nil"
    THEN 0
    ELSE IF resource.fields[path].kind = "string"
    THEN StringRank(resource.fields[path].s) - 1
    ELSE resource.fields[path].n

\* The path a selector sorts by: metadata.name unless it names one.
SortPathOf(selector) ==
    IF selector.sortByFieldPath = "" THEN "metadata.name" ELSE selector.sortByFieldPath

\* The m candidates of the set with the smallest values at the path, in
\* ascending order (the values of the set are distinct).
SmallestOf(set, path, m) ==
    CHOOSE l \in [1..m -> set] :
        /\ \A a, b \in 1..m : a < b => SortKey(l[a], path) < SortKey(l[b], path)
        /\ \A x \in set :
              (\A a \in 1..m : l[a] # x) => \A a \in 1..m : SortKey(l[a], path) < SortKey(x, path)

\* C15: for a Selector source with maxMatch = m and more than m candidates,
\* the resources it adds to the output are the first m of the candidates in
\* ascending order of the value at sortByFieldPath, whatever order the
\* candidates arrived in.
C15_TruncatesAfterSorting ==
    (Verified /\ verifiedExtras.err = "nil") =>
        \A i \in 1..Len(Sources) :
            (/\ IsSelector(Sources[i]) /\ HasKey(i)
             /\ Sources[i].selector.maxMatch # NilInt
             /\ RawCount(i) > Sources[i].selector.maxMatch)
                => LET m == Sources[i].selector.maxMatch
                       set == {Raw[KeyOf(i)][a] : a \in 1..RawCount(i)}
                       first == SmallestOf(set, SortPathOf(Sources[i].selector), m)
                   IN /\ Contribution(i) = first
                      /\ (Len(Sources) = 1 /\ m > 0) => verifiedExtras.extras[KeyOf(i)] = first
                      /\ (Len(Sources) = 1 /\ m = 0) => verifiedExtras.extras = EmptyMap

\* Candidates arrive with keys 3, 1, 2 and maxMatch is 2: the output holds
\* the candidates with keys 1 and 2.
C15_Witness ==
    /\ Verified /\ verifiedExtras.err = "nil"
    /\ Len(Sources) = 1 /\ IsSelector(Sources[1]) /\ HasKey(1)
    /\ Sources[1].selector.maxMatch = 2
    /\ Sources[1].selector.sortByFieldPath = "spec.key"
    /\ [a \in 1..RawCount(1) |-> Raw[KeyOf(1)][a].fields["spec.key"].n] = <<3, 1, 2>>
    /\ [a \in 1..2 |-> verifiedExtras.extras[KeyOf(1)][a].fields["spec.key"].n] = <<1, 2>>

----------------------------------------------------------------------------
(* What the claims about sortExtrasByFieldPath speak of. *)

Sorted == sortCalls >= 1
\* The kind of the value a candidate holds at the sort path: "nil" when it
\* holds none.
KindAt(resource) ==
    IF sortPath \in DOMAIN resource.fields THEN resource.fields[sortPath].kind ELSE "nil"
KindsOf(list) == {KindAt(list[a]) : a \in 1..Len(list)} \ {"nil"}
KeyAt(resource) == SortKey(resource, sortPath)
PositionIn(list, x) == CHOOSE a \in 1..Len(list) : list[a] = x
\* The lists hold the same candidates (the candidates of a list are distinct).
IsPermutation(before, after) ==
    /\ Len(before) = Len(after)
    /\ \A a \in 1..Len(before) : \E b \in 1..Len(after) : after[b] = before[a]
    /\ \A a \in 1..Len(after) : \E b \in 1..Len(before) : before[b] = after[a]
HasTie(list) ==
    \E a, b \in 1..Len(list) : a # b /\ KeyAt(list[a]) = KeyAt(list[b])

\* C16: when the sort returns no error on a list whose values at the path
\* are of one supported kind, the list afterwards holds the same candidates
\* in non-decreasing order of the value at the path (a candidate without a
\* value counts as the zero value).
C16_SortedPermutation ==
    (/\ Sorted /\ sortErr = "nil"
     /\ Cardinality(KindsOf(sortBefore)) <= 1 /\ KindsOf(sortBefore) \subseteq SortableKinds)
        => /\ IsPermutation(sortBefore, sortExtras)
           /\ \A a, b \in 1..Len(sortExtras) :
                 a < b => KeyAt(sortExtras[a]) <= KeyAt(sortExtras[b])

\* Three candidates, one without a value, came in an order that is not
\* ascending and were rearranged.
C16_Witness ==
    /\ sortCalls = 1 /\ sortErr = "nil"
    /\ Len(sortBefore) = 3
    /\ \E a \in 1..3 : KindAt(sortBefore[a]) = "nil"
    /\ KindsOf(sortBefore) = {"float64"}
    /\ sortExtras[1] = sortBefore[3] /\ sortExtras[2] = sortBefore[1]

\* C17: the sort is stable: two candidates whose values at the path compare
\* equal keep the relative order they were supplied in.
C17_SortIsStable ==
    (Sorted /\ sortErr = "nil") =>
        \A a, b \in 1..Len(sortBefore) :
            (a < b /\ KeyAt(sortBefore[a]) = KeyAt(sortBefore[b]))
                => PositionIn(sortExtras, sortBefore[a]) < PositionIn(sortExtras, sortBefore[b])

\* C18: sorting a list the function has sorted already leaves it exactly as
\* it is.
C18_SortIsIdempotent ==
    sortCalls >= 2 => sortExtras = sortBefore

\* A list with equal keys was rearranged by the first call and sorted again.
C18_Witness ==
    /\ sortCalls = 2 /\ sortErr = "nil"
    /\ sortExtras # sortInput
    /\ HasTie(sortInput)
    /\ \E a \in 1..Len(sortInput) : KindAt(sortInput[a]) = "nil"

\* C19: when no candidate holds a value at the (non-empty) sort path, or
\* there is no candidate, the sort returns no error and leaves the order as
\* it was.
C19_AllNilIsNoOp ==
    (Sorted /\ sortPath # "" /\ KindsOf(sortBefore) = {})
        => sortErr = "nil" /\ sortExtras = sortBefore

\* Three candidates, some without the field and some with a null.
C19_Witness ==
    /\ sortCalls = 1 /\ sortPath # ""
    /\ Len(sortBefore) = 3
    /\ sortBefore[1].fields = EmptyMap
    /\ sortBefore[2].fields # EmptyMap /\ KindAt(sortBefore[2]) = "nil"
    /\ sortErr = "nil"

\* C20: two candidates holding values of different kinds at the path make the
\* sort return an error, wherever they stand and whatever lies between them.
C20_MixedKindsIsAnError ==
    Sorted =>
        ((\E a, b \in 1..Len(sortBefore) :
            /\ KindAt(sortBefore[a]) \notin {"nil", "error"}
            /\ KindAt(sortBefore[b]) \notin {"nil", "error"}
            /\ KindAt(sortBefore[a]) # KindAt(sortBefore[b]))
         => sortErr = "error" /\ sortExtras = sortBefore)

\* A string and a number with a candidate without a value between them.
C20_Witness ==
    /\ sortCalls = 1 /\ sortPath # ""
    /\ Len(sortBefore) = 3
    /\ KindAt(sortBefore[1]) = "string"
    /\ KindAt(sortBefore[2]) = "nil"
    /\ KindAt(sortBefore[3]) = "float64"
    /\ sortErr = "error"

\* C21: when only some candidates lack a value at the sort path and the
\* others hold values of one supported kind, the sort succeeds and a candidate
\* without a value stands where the zero value of the kind stands: before
\* every candidate with a greater value, after every candidate with a
\* smaller one.
C21_NilSortsAsZeroValue ==
    (/\ Sorted /\ sortPath # ""
     /\ Cardinality(KindsOf(sortBefore)) = 1 /\ KindsOf(sortBefore) \subseteq SortableKinds
     /\ \A a \in 1..Len(sortBefore) : KindAt(sortBefore[a]) # "error")
        => /\ sortErr = "nil"
           /\ \A a, b \in 1..Len(sortExtras) :
                 KindAt(sortExtras[a]) = "nil" /\ KindAt(sortExtras[b]) # "nil"
                    => /\ sortExtras[b].fields[sortPath].n > 0 => a < b
                       /\ sortExtras[b].fields[sortPath].n < 0 => b < a
                       /\ (KindAt(sortExtras[b]) = "string" /\ sortExtras[b].fields[sortPath].s # "")
                            => a < b

\* A candidate without a value arrived last and ends between a negative and
\* a positive number.
C21_Witness ==
    /\ sortCalls = 1 /\ sortErr = "nil"
    /\ Len(sortBefore) = 3
    /\ KindAt(sortBefore[3]) = "nil"
    /\ KindAt(sortBefore[1]) = "float64" /\ sortBefore[1].fields[sortPath].n > 0
    /\ KindAt(sortBefore[2]) = "float64" /\ sortBefore[2].fields[sortPath].n < 0
    /\ sortExtras = <<sortBefore[2], sortBefore[3], sortBefore[1]>>

\* C22: a candidate holding a value of an unsupported kind at the sort path
\* makes the sort return an error, whatever the length of the list.
C22_UnsupportedKindIsAnError ==
    (Sorted /\ \E a \in 1..Len(sortBefore) :
                    KindAt(sortBefore[a]) \notin SortableKinds \cup {"nil", "error"})
        => sortErr = "error"

\* C29: when the sort returns an error the caller's slice is as it was passed
\* in: the same candidates in the same order.
C29_ErrorLeavesSliceUntouched ==
    (Sorted /\ sortErr = "error") => sortExtras = sortBefore

\* The sort failed on values of different kinds that did not arrive in
\* ascending order.
C29_Witness ==
    /\ sortCalls = 1 /\ sortErr = "error" /\ sortPath # ""
    /\ Len(sortBefore) = 3
    /\ KindAt(sortBefore[1]) = "float64" /\ sortBefore[1].fields[sortPath].n = 1
    /\ KindAt(sortBefore[2]) = "float64" /\ sortBefore[2].fields[sortPath].n = 0
    /\ KindAt(sortBefore[3]) = "string"
    /\ sortExtras = sortInput

\* C23: sortExtrasByFieldPath with an empty path returns an error on every
\* list; and verifyAndSortExtras passes it the path of the selector, or
\* metadata.name when the selector names none, so that a Selector source
\* without a sortByFieldPath is sorted and fails on no error of the sort.
C23_EmptyPathFailsAndIsNeverPassed ==
    /\ (Sorted /\ sortPath = "") => sortErr = "error"
    /\ Verified =>
         \A i \in 1..Len(Sources) :
            (/\ Reached(i) /\ HasKey(i) /\ IsSelector(Sources[i])
             /\ (Sources[i].selector.minMatch = NilInt
                 \/ RawCount(i) >= Sources[i].selector.minMatch))
                => /\ StateAfter(i).err =
                        sortExtrasByFieldPath(StateBefore(i).raw[KeyOf(i)],
                                              SortPathOf(Sources[i].selector)).err
                   /\ Sources[i].selector.sortByFieldPath = "" => StateAfter(i).err = "nil"

\* A Selector source without a sortByFieldPath received candidates that were
\* not in the order of their names and put them in that order.
C23_Witness ==
    /\ Verified /\ verifiedExtras.err = "nil"
    /\ \E i \in 1..Len(Sources) :
         /\ IsSelector(Sources[i]) /\ Sources[i].selector.sortByFieldPath = ""
         /\ Sources[i].selector.maxMatch = NilInt
         /\ HasKey(i) /\ RawCount(i) = 3
         /\ Contribution(i) # StateBefore(i).raw[KeyOf(i)]
         /\ \A a \in 1..2 : SortKey(Contribution(i)[a], "metadata.name")
                                < SortKey(Contribution(i)[a + 1], "metadata.name")

\* The output document of the response, and the list it holds under a key
\* (no list where it has no such key).
OutputDocument == rsp.context[FunctionContextKeyExtraResources]
OutputAt(key) == IF key \in DOMAIN OutputDocument THEN OutputDocument[key] ELSE <<>>
Succeeded == Returned /\ ret = "rsp" /\ HasOutput
DistinctDestinations ==
    \A i, j \in 1..Len(Sources) : i # j => KeyOf(i) # KeyOf(j)
Min(a, b) == IF a <= b THEN a ELSE b
\* The number of resources source i keeps of n candidates.
KeptCount(i, n) ==
    IF Sources[i].type = ResourceSourceTypeSelector /\ Sources[i].selector.maxMatch # NilInt
    THEN Min(n, Sources[i].selector.maxMatch)
    ELSE n
\* The candidates supplied for source i, as the output document writes them.
RawObjects(i) == {StructObject(Raw[KeyOf(i)][a]) : a \in 1..RawCount(i)}

C25_ContextKeyFollowsInput ==
    Succeeded =>
        DOMAIN rsp.context = {IF input.contextKey # NilStr
                              THEN input.contextKey
                              ELSE FunctionContextKeyExtraResources}

\* The list supplied under the key of source i is within the bounds of the
\* source: one candidate for a Reference (or none under policy Optional), at
\* least minMatch candidates for a Selector.
WithinBounds(i) ==
    IF IsReference(Sources[i])
    THEN RawCount(i) = 1 \/ (RawCount(i) = 0 /\ PolicyOptional)
    ELSE IsSelector(Sources[i]) =>
            \/ Sources[i].selector.minMatch = NilInt
            \/ RawCount(i) >= Sources[i].selector.minMatch

\* The caller supplied matches for exactly the keys of the requirement map,
\* each list within the bounds of the sources of its key.
AnswersRequirements ==
    /\ ~extras.isNil /\ extras.valid
    /\ requirements.err = "nil"
    /\ DOMAIN Raw = DOMAIN Requirements
    /\ \A i \in 1..Len(Sources) : HasKey(i) => WithinBounds(i)

\* C27: when the caller supplies matches for exactly the keys of the
\* requirement map the first phase built, each list within the bounds of its
\* source, verification finds the key of every source it looks up and the
\* invocation returns the output: a Selector that has no requirement because
\* it resolved to zero labels is not looked up.
C27_AnsweredRequirementsVerify ==
    (Returned /\ AnswersRequirements) =>
        /\ \A i \in 1..Len(Sources) : Reached(i) => HasKey(i)
        /\ verifiedExtras.err = "nil"
        /\ Succeeded

\* C28: after a successful invocation with extra resources the output
\* document has an entry for every Selector source, a list of as many
\* resources as candidates were supplied, or of maxMatch resources when that
\* is less: an empty list when no candidate was supplied or maxMatch is 0.
C28_EntryForEverySelector ==
    Succeeded =>
        \A i \in 1..Len(Sources) :
            Sources[i].type = ResourceSourceTypeSelector =>
                /\ KeyOf(i) \in DOMAIN OutputDocument
                /\ Len(OutputDocument[KeyOf(i)]) = KeptCount(i, RawCount(i))

\* The steps of an invocation that returns the output.
AllSteps ==
    {"GetInput", "GetObservedCompositeResource", "buildRequirements", "ExtraResources",
     "GetExtraResources", "verifyAndSortExtras", "SetContextKey"}

\* C30: a response never holds a fatal result together with an output
\* document; the context is written by the last step of an invocation whose
\* input, composite resource and extra resources decoded and whose
\* requirements and verification succeeded; and once a fatal result is
\* recorded the response stays as it is until the function is called again.
C30_FatalExcludesOutput ==
    /\ [](/\ ~(HasFatal /\ HasOutput)
          /\ HasOutput =>
                /\ Returned /\ ret = "rsp"
                /\ ran = AllSteps
                /\ input.valid /\ xr.valid /\ ~extras.isNil /\ extras.valid
                /\ requirements.err = "nil" /\ verifiedExtras.err = "nil")
    /\ [][HasFatal => (rsp' = rsp \/ (pc' = "GetInput" /\ rsp' = NewResponse))]_vars
    /\ [][(~HasFatal /\ HasFatal') => (pc' = "done" /\ ret' = "rsp")]_vars

\* An invocation returned the output after the invocation without extra
\* resources returned the requirements.
C30_Witness ==
    /\ Returned /\ HasOutput /\ ~HasFatal /\ ran = AllSteps
    /\ rsp1.set /\ ~rsp1.rsp.requirements.isNil
    /\ DOMAIN OutputDocument = Intos

\* The key holds a mapping in the document.
IsMapping(doc, key) == key \in DOMAIN doc /\ doc[key].kind = "mapping"
\* What the merge leaves under a key one side holds as a scalar or not at
\* all: the value of the overlay when it has one, the value of the base
\* otherwise.
OverlayWins(base, overlay, key) ==
    IF key \in DOMAIN overlay THEN overlay[key] ELSE base[key]

====
